---- MODULE Spec2Model ----
(***************************************************************************)
(* State-machine model of the Campaign Analysis Engine,                    *)
(* src/modules/analysis.py (class TweetAnalyzer).                          *)
(*                                                                         *)
(* A DataFrame is a sequence of row records plus the set of column names   *)
(* it carries.  A nullable cell is None (<<>>) or Some(v) (<<v>>).         *)
(* Reals are kept exact as scaled integers:                                *)
(*   engagement_score   in halves      (weights 1, 2, 1.5, 3 -> 2, 4, 3, 6)*)
(*   sentiment polarity in hundredths  (threshold 0.05 -> 5)               *)
(*   bot_score          in 1/146ths    (100.0 -> 14600)                    *)
(*   author_hostility_score as the fraction num/den                        *)
(* Timestamps are day numbers; a timestamp that pd.to_datetime rejects is  *)
(* [ok |-> FALSE].                                                         *)
(***************************************************************************)
EXTENDS Integers, Sequences, FiniteSets, TLC

VARIABLES
    input,       \* the record set handed to TweetAnalyzer(df): rows
    inputCols,   \* ... and its column names
    df,          \* self.df rows
    cols,        \* self.df column names
    pc,          \* position in __init__ / run_full_analysis
    now,         \* datetime.now(timezone.utc), as a day number
    unique_locations, \* _geocode_locations: the strings still to look up
    location_cache,   \* _geocode_locations: string -> (lat, lon) pair
    lookups,     \* history: the geocode(...) calls issued, in order
    trace,       \* history: the pipeline stages started, in order
    error,       \* the exception that ended the run, "" when none
    result,      \* the DataFrame run_full_analysis returned
    \* a second run of the engine over the same input
    previous,    \* what the run before this one returned
    runs,        \* the runs started so far
    \* generate_network_graph
    G,           \* the nx.DiGraph: nodes, edges, node attribute 'group'
    pending,     \* the (author, mentioned) pairs the build loop has yet to add
    edge_calls,  \* history: the G.add_edge calls made
    communities, \* what louvain_communities returned, as a list
    detections,  \* history: the calls of louvain_communities
    attempted,   \* history: the artifact writes attempted
    artifacts,   \* the artifact files written
    \* collect_tweets (src/modules/twitter_collector.py)
    keywords,        \* the keyword list
    keyword_chunks,  \* the chunks built from it
    chunk_i,         \* the chunk being fetched (1-based)
    attempt,         \* the retry loop's attempt, 0-based
    all_tweets_df,   \* the records collected so far
    chunk_log,       \* history: the requests and sleeps for this chunk
    cpc,             \* position in collect_tweets
    returned         \* the record set collect_tweets returned

rerunVars == <<previous, runs>>
graphVars == <<G, pending, edge_calls, communities, detections, attempted, artifacts>>
collectorVars == <<keywords, keyword_chunks, chunk_i, attempt, all_tweets_df,
                   chunk_log, cpc, returned>>
engineVars == <<input, inputCols, df, cols, pc, now, unique_locations,
                location_cache, lookups, trace, error, result>>

vars == <<engineVars, rerunVars, graphVars, collectorVars>>

(***************************** bounds ***************************************)
MaxPosts == 2

(***************************** values ***************************************)
None == <<>>
Some(v) == <<v>>
IsNull(c) == c = None
Val(c) == c[1]

AuthorIds == {1, 2}
Locations == {"Paris", "Delhi"}
\* what the external geocoder may answer for a string it finds
CoordSet == {[latitude |-> 48, longitude |-> 2], [latitude |-> 28, longitude |-> 77]}
NowDays == {400}

Range(s) == {s[i] : i \in 1..Len(s)}

RECURSIVE SeqSum(_)
SeqSum(s) == IF s = <<>> THEN 0 ELSE Head(s) + SeqSum(Tail(s))

(***************************** input records ****************************)
\* A post text, reduced to what the engine reads from it: the polarity the
\* TextBlob primitive gives it and the tokens the three regexes find in it.
Text(p, m) == [polarity |-> p, hashtags |-> <<>>, mentions |-> m, urls |-> <<>>]

Timestamp(d) == [ok |-> TRUE, day |-> d]
BadTimestamp == [ok |-> FALSE, day |-> 0]

\* One raw record as collect_tweets builds it (the columns the engine reads).
RawPost(a, t, c, created, followers, loc) ==
    [tweet_id |-> None, author_id |-> Some(a), text |-> t,
     like_count |-> c[1], retweet_count |-> c[2],
     reply_count |-> c[3], quote_count |-> c[4],
     author_created_at |-> created,
     author_followers_count |-> followers,
     author_location |-> loc]

Counts == {<<0, 0, 0, 0>>, <<10, 2, 1, 0>>}
Polarities == {-6, 0}
CreatedValues == {None, Some(Timestamp(300)), Some(Timestamp(401)), Some(BadTimestamp)}
FollowerValues == {None, Some(0), Some(200)}

\* The posts a dataset is drawn from: each varies one group of attributes
\* around a plain post (author 1, no interaction, neutral text, no author
\* metadata).
CorePosts ==
    {RawPost(a, Text(p, <<>>), c, None, None, None) :
        a \in AuthorIds, p \in Polarities, c \in Counts}
MentionPosts ==
    {RawPost(1, Text(0, <<"bob">>), <<0, 0, 0, 0>>, None, None, None)}
BotPosts ==
    {RawPost(1, Text(0, <<>>), <<0, 0, 0, 0>>, cr, fo, None) :
        cr \in CreatedValues, fo \in FollowerValues}
GeoPosts ==
    {RawPost(1, Text(0, <<>>), <<0, 0, 0, 0>>, None, None, Some(l)) :
        l \in Locations}
PostSet == CorePosts \cup MentionPosts \cup BotPosts \cup GeoPosts

RequiredCols == {"tweet_id", "author_id", "text", "like_count",
                 "retweet_count", "reply_count", "quote_count"}
OptionalCols == {"author_created_at", "author_followers_count", "author_location"}

\* A dataset: tweet ids are the input positions (the collector's output is
\* deduplicated); a cell of a column the dataset lacks is None.
Dataset(posts, cs) ==
    [i \in 1..Len(posts) |->
        [posts[i] EXCEPT
            !.tweet_id = Some(i),
            !.author_created_at =
                IF "author_created_at" \in cs THEN @ ELSE None,
            !.author_followers_count =
                IF "author_followers_count" \in cs THEN @ ELSE None,
            !.author_location =
                IF "author_location" \in cs THEN @ ELSE None]]

SeqsUpTo(S, n) == UNION {[1..k -> S] : k \in 0..n}

(***************************** rows of self.df **************************)
\* A row of self.df: the raw columns and every column the pipeline may add,
\* None until the stage that adds it has run (cols tells which exist).
Row(raw) ==
    [tweet_id |-> raw.tweet_id, author_id |-> raw.author_id, text |-> raw.text,
     like_count |-> raw.like_count, retweet_count |-> raw.retweet_count,
     reply_count |-> raw.reply_count, quote_count |-> raw.quote_count,
     author_created_at |-> raw.author_created_at,
     author_followers_count |-> raw.author_followers_count,
     author_location |-> raw.author_location,
     engagement_score |-> None, sentiment_polarity |-> None,
     sentiment_label |-> None, hashtags |-> None, mentions |-> None,
     urls |-> None, tweet_count |-> None, total_engagement |-> None,
     hostile_tweet_count |-> None, author_hostility_score |-> None,
     bot_score |-> None, latitude |-> None, longitude |-> None]

NoFrame == <<>>

(***************************** per-row functions ************************)
\* faulty variant: a reply weighs 1
_calculate_engagement_score_unit_reply(row) ==
    row.like_count * 2 + row.retweet_count * 4
    + row.reply_count * 2 + row.quote_count * 6
\* weights 1, 2, 1.5, 3, doubled: the score in halves
_calculate_engagement_score(row) ==
    row.like_count * 2 + row.retweet_count * 4
    + row.reply_count * 3 + row.quote_count * 6

\* threshold = 0.05, in hundredths
threshold == 5

\* faulty variant: the two comparisons include the threshold
_get_sentiment_inclusive(text) ==
    LET polarity == text.polarity IN
    IF polarity <= -threshold THEN <<polarity, "Hostile">>
    ELSE IF polarity >= threshold THEN <<polarity, "Positive">>
    ELSE <<polarity, "Neutral">>
_get_sentiment(text) ==
    LET polarity == text.polarity IN
    IF polarity < -threshold THEN <<polarity, "Hostile">>
    ELSE IF polarity > threshold THEN <<polarity, "Positive">>
    ELSE <<polarity, "Neutral">>

_extract_entities(text) == <<text.hashtags, text.mentions, text.urls>>

Max(a, b) == IF a >= b THEN a ELSE b

\* age_score = max(0, 1 - days/365), times 730; 0.5 when the timestamp
\* cannot be subtracted from now (TypeError, ValueError)
AgeScore730(created, today) ==
    IF created.ok THEN Max(0, 730 - 2 * (today - created.day)) ELSE 365

\* follower_score = max(0, 1 - followers/100), times 100
FollowerScore100(followers) == Max(0, 100 - followers)

\* ((age_score + follower_score) / 2) * 100, times 146; None when either
\* input is missing
_calculate_bot_score(row, cs, today) ==
    IF \/ "author_created_at" \notin cs
       \/ IsNull(row.author_created_at)
       \/ "author_followers_count" \notin cs
       \/ IsNull(row.author_followers_count)
    THEN None
    ELSE Some(10 * AgeScore730(Val(row.author_created_at), today)
              + 73 * FollowerScore100(Val(row.author_followers_count)))

(***************************** author aggregation ***********************)
Min(S) == CHOOSE x \in S : \A y \in S : x <= y

RECURSIVE Ascending(_)
\* the elements of a finite set of integers, ascending (groupby sorts keys)
Ascending(S) ==
    IF S = {} THEN <<>> ELSE <<Min(S)>> \o Ascending(S \ {Min(S)})

\* df.groupby('author_id'): the group keys (null keys are dropped)
GroupKeys(rows) ==
    {Val(rows[i].author_id) : i \in {j \in 1..Len(rows) : ~IsNull(rows[j].author_id)}}

\* the rows of one group, in frame order
Group(rows, a) == SelectSeq(rows, LAMBDA r : r.author_id = Some(a))

\* ('tweet_id', 'count'): the non-null tweet ids of the group
CountTweetIds(g) == Len(SelectSeq(g, LAMBDA r : ~IsNull(r.tweet_id)))

\* ('engagement_score', 'sum')
SumEngagement(g) == SeqSum([i \in 1..Len(g) |-> Val(g[i].engagement_score)])

\* df[df['sentiment_label'] == 'Hostile'].groupby('author_id').size():
\* a series over the authors that have a Hostile post
hostile_counts(rows) ==
    LET hostile == SelectSeq(rows, LAMBDA r : r.sentiment_label = Some("Hostile"))
    IN  [a \in GroupKeys(hostile) |-> Len(Group(hostile, a))]

\* faulty variant: the Hostile posts counted over the whole frame, not per author
HostileTweetCountUngrouped(rows, a) ==
    Len(SelectSeq(rows, LAMBDA r : r.sentiment_label = Some("Hostile")))

\* author_agg['author_id'].map(hostile_counts).fillna(0)
HostileTweetCount(rows, a) ==
    IF a \in DOMAIN hostile_counts(rows) THEN hostile_counts(rows)[a] ELSE 0

\* (hostile_tweet_count / tweet_count) * 100, as a fraction
HostilityScore(h, c) == [num |-> 100 * h, den |-> c]

\* faulty variant: one aggregate record per post instead of one per author
author_agg_per_post(rows) ==
    [k \in 1..Len(rows) |->
        LET a == Val(rows[k].author_id)
            c == CountTweetIds(Group(rows, a))
            h == HostileTweetCount(rows, a)
        IN  [author_id |-> Some(a),
             tweet_count |-> c,
             total_engagement |-> SumEngagement(Group(rows, a)),
             hostile_tweet_count |-> h,
             author_hostility_score |-> HostilityScore(h, c)]]

\* author_agg: one record per group key, keys ascending
author_agg(rows) ==
    LET keys == Ascending(GroupKeys(rows)) IN
    [k \in 1..Len(keys) |->
        LET a == keys[k]
            c == CountTweetIds(Group(rows, a))
            h == HostileTweetCount(rows, a)
        IN  [author_id |-> Some(a),
             tweet_count |-> c,
             total_engagement |-> SumEngagement(Group(rows, a)),
             hostile_tweet_count |-> h,
             author_hostility_score |-> HostilityScore(h, c)]]

\* one left row joined with each right row of the same key; with no match
\* the left row is kept and the right columns stay null
JoinRow(l, right) ==
    LET matches == SelectSeq(right, LAMBDA r : r.author_id = l.author_id) IN
    IF matches = <<>> THEN <<l>>
    ELSE [m \in 1..Len(matches) |->
            [l EXCEPT
               !.tweet_count = Some(matches[m].tweet_count),
               !.total_engagement = Some(matches[m].total_engagement),
               !.hostile_tweet_count = Some(matches[m].hostile_tweet_count),
               !.author_hostility_score = Some(matches[m].author_hostility_score)]]

RECURSIVE merge(_, _)
\* left.merge(right, on='author_id', how='left'): left order kept
merge(left, right) ==
    IF left = <<>> THEN <<>>
    ELSE JoinRow(Head(left), right) \o merge(Tail(left), right)

_calculate_author_metrics(rows) == merge(rows, author_agg(rows))

(***************************** location resolver ************************)
dropna(column) == SelectSeq(column, LAMBDA c : ~IsNull(c))

RECURSIVE unique(_)
\* Series.unique(): the distinct values in order of first appearance
unique(column) ==
    IF column = <<>> THEN <<>>
    ELSE <<Head(column)>>
         \o unique(SelectSeq(Tail(column), LAMBDA c : c # Head(column)))

LocationColumn(rows) == [i \in 1..Len(rows) |-> rows[i].author_location]

\* faulty variant: .unique() left out, every located post looked up
AllLocations(rows) ==
    LET u == dropna(LocationColumn(rows)) IN
    [i \in 1..Len(u) |-> Val(u[i])]

\* self.df['author_location'].dropna().unique(), as plain strings
UniqueLocations(rows) ==
    LET u == unique(dropna(LocationColumn(rows))) IN
    [i \in 1..Len(u) |-> Val(u[i])]

\* what geocode(location_str) may return: a location object, or None when
\* the service finds nothing or the call fails (return_value_on_exception)
GeocodeAnswers == {None} \cup {Some(c) : c \in CoordSet}

\* (location_obj.latitude, location_obj.longitude) if location_obj
\* else (None, None)
CacheEntry(location_obj) ==
    IF IsNull(location_obj) THEN <<None, None>>
    ELSE <<Some(Val(location_obj).latitude), Some(Val(location_obj).longitude)>>

\* self.df['author_location'].map(location_cache): the cached pair, NaN
\* (None) for a null location
MapCache(rows, cache) ==
    [i \in 1..Len(rows) |->
        IF IsNull(rows[i].author_location) THEN None
        ELSE Some(cache[Val(rows[i].author_location)])]

\* pd.DataFrame(coords.tolist(), index=...) assigned to the two columns:
\* "" when it succeeds, else the exception.  A NaN among the pairs is no
\* tuple: after a tuple it has no len() (TypeError); in first place the
\* list is read as one column, which does not fit two keys (ValueError).
CoordsFrameError(coords) ==
    IF \A i \in 1..Len(coords) : ~IsNull(coords[i]) THEN ""
    ELSE IF IsNull(coords[1]) THEN "ValueError" ELSE "TypeError"

(***************************** final sort *******************************)
IsDescending(rows) ==
    \A i, j \in 1..Len(rows) :
        i < j => Val(rows[i].engagement_score) >= Val(rows[j].engagement_score)

Permuted(rows, p) == [i \in 1..Len(rows) |-> rows[p[i]]]

\* faulty variant: ascending=True
sort_values_ascending(rows) ==
    {Permuted(rows, p) : p \in {q \in Permutations(1..Len(rows)) :
        \A i, j \in 1..Len(rows) :
            i < j => Val(Permuted(rows, q)[i].engagement_score)
                     <= Val(Permuted(rows, q)[j].engagement_score)}}

\* df.sort_values(by='engagement_score', ascending=False): kind defaults to
\* 'quicksort', which pandas documents as not stable, so every descending
\* arrangement of the rows is a possible outcome.
sort_values(rows) ==
    {Permuted(rows, p) : p \in {q \in Permutations(1..Len(rows)) :
                                    IsDescending(Permuted(rows, q))}}

(***************************** the pipeline *****************************)
\* faulty variant: the author aggregation called before the sentiment stage
PipelineAggregatingEarly ==
    <<"engagement", "author_metrics", "sentiment", "entities",
      "bot_score", "geocode", "sort", "return">>

\* run_full_analysis, statement by statement
Pipeline ==
    <<"engagement", "sentiment", "entities", "author_metrics",
      "bot_score", "geocode", "sort", "return">>

StageAfter(stage) ==
    LET k == CHOOSE i \in 1..Len(Pipeline) : Pipeline[i] = stage IN
    IF k = Len(Pipeline) THEN "done" ELSE Pipeline[k + 1]

\* faulty variant: __init__ without the emptiness check
IsEmptyUnchecked(rows, cs) == FALSE

\* df.empty: no rows, or no columns
IsEmpty(rows, cs) == Len(rows) = 0 \/ cs = {}

\* faulty variant: any(...) in place of all(...)
HasAnyBotColumn(cs) ==
    \E k \in {"author_created_at", "author_followers_count"} : k \in cs

\* 'all(k in self.df for k in [...])'
HasBotColumns(cs) ==
    \A k \in {"author_created_at", "author_followers_count"} : k \in cs

\* nx.DiGraph(): no node, no edge, no attribute
EmptyGraph == [nodes |-> {}, edges |-> {}, group |-> <<>>]

\* the engine has run once and no graph has been asked for
FirstRun == previous = NoFrame /\ runs = 1

NoGraph ==
    /\ G = EmptyGraph
    /\ pending = <<>>
    /\ edge_calls = 0
    /\ communities = <<>>
    /\ detections = 0
    /\ attempted = {}
    /\ artifacts = {}

\* collect_tweets is not running
CollectorIdle ==
    /\ keywords = <<>>
    /\ keyword_chunks = <<>>
    /\ chunk_i = 0
    /\ attempt = 0
    /\ all_tweets_df = <<>>
    /\ chunk_log = <<>>
    /\ cpc = "idle"
    /\ returned = <<>>

Init ==
    /\ \E cs \in SUBSET OptionalCols, posts \in SeqsUpTo(PostSet, MaxPosts) :
          /\ input = Dataset(posts, cs)
          /\ inputCols = RequiredCols \cup cs
    /\ df = NoFrame
    /\ cols = {}
    /\ pc = "init"
    /\ now \in NowDays
    /\ unique_locations = <<>>
    /\ location_cache = <<>>
    /\ lookups = <<>>
    /\ trace = <<>>
    /\ error = ""
    /\ result = NoFrame
    /\ FirstRun
    /\ NoGraph
    /\ CollectorIdle

\* TweetAnalyzer.__init__
Construct ==
    /\ pc = "init"
    /\ UNCHANGED <<rerunVars, graphVars, collectorVars>>
    /\ IF IsEmpty(input, inputCols)
       THEN /\ pc' = "rejected"
            /\ error' = "ValueError"
            /\ UNCHANGED <<df, cols>>
       ELSE /\ df' = [i \in 1..Len(input) |-> Row(input[i])]
            /\ cols' = inputCols
            /\ pc' = Pipeline[1]
            /\ UNCHANGED error
    /\ UNCHANGED <<input, inputCols, now, unique_locations, location_cache,
                   lookups, trace, result>>

\* self.df['engagement_score'] = self.df.apply(...)
EngagementStage ==
    /\ pc = "engagement"
    /\ UNCHANGED <<rerunVars, graphVars, collectorVars>>
    /\ df' = [i \in 1..Len(df) |->
                [df[i] EXCEPT !.engagement_score =
                    Some(_calculate_engagement_score(df[i]))]]
    /\ cols' = cols \cup {"engagement_score"}
    /\ trace' = Append(trace, "engagement")
    /\ pc' = StageAfter("engagement")
    /\ UNCHANGED <<input, inputCols, now, unique_locations, location_cache,
                   lookups, error, result>>

\* sentiments = ...; self.df[['sentiment_polarity', 'sentiment_label']] = ...
SentimentStage ==
    /\ pc = "sentiment"
    /\ UNCHANGED <<rerunVars, graphVars, collectorVars>>
    /\ df' = [i \in 1..Len(df) |->
                LET sentiment == _get_sentiment(df[i].text) IN
                [df[i] EXCEPT !.sentiment_polarity = Some(sentiment[1]),
                              !.sentiment_label = Some(sentiment[2])]]
    /\ cols' = cols \cup {"sentiment_polarity", "sentiment_label"}
    /\ trace' = Append(trace, "sentiment")
    /\ pc' = StageAfter("sentiment")
    /\ UNCHANGED <<input, inputCols, now, unique_locations, location_cache,
                   lookups, error, result>>

\* entities = ...; self.df[['hashtags', 'mentions', 'urls']] = ...
EntityStage ==
    /\ pc = "entities"
    /\ UNCHANGED <<rerunVars, graphVars, collectorVars>>
    /\ df' = [i \in 1..Len(df) |->
                LET entities == _extract_entities(df[i].text) IN
                [df[i] EXCEPT !.hashtags = Some(entities[1]),
                              !.mentions = Some(entities[2]),
                              !.urls = Some(entities[3])]]
    /\ cols' = cols \cup {"hashtags", "mentions", "urls"}
    /\ trace' = Append(trace, "entities")
    /\ pc' = StageAfter("entities")
    /\ UNCHANGED <<input, inputCols, now, unique_locations, location_cache,
                   lookups, error, result>>

\* self._calculate_author_metrics()
AuthorMetricsStage ==
    /\ pc = "author_metrics"
    /\ UNCHANGED <<rerunVars, graphVars, collectorVars>>
    /\ IF "author_id" \in cols
       THEN /\ df' = _calculate_author_metrics(df)
            /\ cols' = cols \cup {"tweet_count", "total_engagement",
                                  "hostile_tweet_count", "author_hostility_score"}
            /\ trace' = Append(trace, "author_metrics")
            /\ pc' = StageAfter("author_metrics")
            /\ UNCHANGED error
       ELSE \* self.df.groupby('author_id') on a frame without the column
            /\ error' = "KeyError"
            /\ pc' = "aborted"
            /\ UNCHANGED <<df, cols, trace>>
    /\ UNCHANGED <<input, inputCols, now, unique_locations, location_cache,
                   lookups, result>>

\* if all(k in self.df ...): self.df['bot_score'] = self.df.apply(...)
BotScoreStage ==
    /\ pc = "bot_score"
    /\ UNCHANGED <<rerunVars, graphVars, collectorVars>>
    /\ HasBotColumns(cols)
    /\ df' = [i \in 1..Len(df) |->
                [df[i] EXCEPT !.bot_score = _calculate_bot_score(df[i], cols, now)]]
    /\ cols' = cols \cup {"bot_score"}
    /\ trace' = Append(trace, "bot_score")
    /\ pc' = StageAfter("bot_score")
    /\ UNCHANGED <<input, inputCols, now, unique_locations, location_cache,
                   lookups, error, result>>

\* else: print("-> Skipping bot score ...")
SkipBotScore ==
    /\ pc = "bot_score"
    /\ UNCHANGED <<rerunVars, graphVars, collectorVars>>
    /\ ~HasBotColumns(cols)
    /\ pc' = StageAfter("bot_score")
    /\ UNCHANGED <<input, inputCols, df, cols, now, unique_locations,
                   location_cache, lookups, trace, error, result>>

NullCoordinates(rows) ==
    [i \in 1..Len(rows) |-> [rows[i] EXCEPT !.latitude = None, !.longitude = None]]

\* _geocode_locations: no author_location column
GeocodeNoColumn ==
    /\ pc = "geocode"
    /\ UNCHANGED <<rerunVars, graphVars, collectorVars>>
    /\ "author_location" \notin cols
    /\ df' = NullCoordinates(df)
    /\ cols' = cols \cup {"latitude", "longitude"}
    /\ trace' = Append(trace, "geocode")
    /\ pc' = StageAfter("geocode")
    /\ UNCHANGED <<input, inputCols, now, unique_locations, location_cache,
                   lookups, error, result>>

\* _geocode_locations: the column holds no location
GeocodeNoData ==
    /\ pc = "geocode"
    /\ UNCHANGED <<rerunVars, graphVars, collectorVars>>
    /\ "author_location" \in cols
    /\ Len(UniqueLocations(df)) = 0
    /\ df' = NullCoordinates(df)
    /\ cols' = cols \cup {"latitude", "longitude"}
    /\ trace' = Append(trace, "geocode")
    /\ pc' = StageAfter("geocode")
    /\ UNCHANGED <<input, inputCols, now, unique_locations, location_cache,
                   lookups, error, result>>

\* _geocode_locations: unique_locations = ...; location_cache = {}
GeocodeStart ==
    /\ pc = "geocode"
    /\ UNCHANGED <<rerunVars, graphVars, collectorVars>>
    /\ "author_location" \in cols
    /\ Len(UniqueLocations(df)) # 0
    /\ unique_locations' = UniqueLocations(df)
    /\ location_cache' = <<>>
    /\ trace' = Append(trace, "geocode")
    /\ pc' = "geocode_loop"
    /\ UNCHANGED <<input, inputCols, df, cols, now, lookups, error, result>>

\* one turn of 'for location_str in unique_locations': the lookup and the
\* cache entry; unique_locations keeps the strings not yet visited
GeocodeLookup ==
    /\ pc = "geocode_loop"
    /\ UNCHANGED <<rerunVars, graphVars, collectorVars>>
    /\ unique_locations # <<>>
    /\ LET location_str == Head(unique_locations) IN
       \E location_obj \in GeocodeAnswers :
          /\ lookups' = Append(lookups, location_str)
          /\ location_cache' =
                (location_str :> CacheEntry(location_obj)) @@ location_cache
    /\ unique_locations' = Tail(unique_locations)
    /\ UNCHANGED <<input, inputCols, df, cols, pc, now, trace, error, result>>

\* coords = ...map(location_cache); self.df[['latitude', 'longitude']] = ...
GeocodeMap ==
    /\ pc = "geocode_loop"
    /\ UNCHANGED <<rerunVars, graphVars, collectorVars>>
    /\ unique_locations = <<>>
    /\ LET coords == MapCache(df, location_cache) IN
       IF CoordsFrameError(coords) = ""
       THEN /\ df' = [i \in 1..Len(df) |->
                        [df[i] EXCEPT !.latitude = Val(coords[i])[1],
                                      !.longitude = Val(coords[i])[2]]]
            /\ cols' = cols \cup {"latitude", "longitude"}
            /\ pc' = StageAfter("geocode")
            /\ UNCHANGED error
       ELSE /\ error' = CoordsFrameError(coords)
            /\ pc' = "aborted"
            /\ UNCHANGED <<df, cols>>
    /\ UNCHANGED <<input, inputCols, now, unique_locations, location_cache,
                   lookups, trace, result>>

\* self.df = self.df.sort_values(by='engagement_score', ascending=False)
SortStage ==
    /\ pc = "sort"
    /\ UNCHANGED <<rerunVars, graphVars, collectorVars>>
    /\ df' \in sort_values(df)
    /\ trace' = Append(trace, "sort")
    /\ pc' = StageAfter("sort")
    /\ UNCHANGED <<input, inputCols, cols, now, unique_locations,
                   location_cache, lookups, error, result>>

\* return self.df
Return ==
    /\ pc = "return"
    /\ UNCHANGED <<rerunVars, graphVars, collectorVars>>
    /\ result' = df
    /\ trace' = Append(trace, "return")
    /\ pc' = StageAfter("return")
    /\ UNCHANGED <<input, inputCols, df, cols, now, unique_locations,
                   location_cache, lookups, error>>

Next ==
    \/ Construct
    \/ EngagementStage
    \/ SentimentStage
    \/ EntityStage
    \/ AuthorMetricsStage
    \/ BotScoreStage
    \/ SkipBotScore
    \/ GeocodeNoColumn
    \/ GeocodeNoData
    \/ GeocodeStart
    \/ GeocodeLookup
    \/ GeocodeMap
    \/ SortStage
    \/ Return

Spec == Init /\ [][Next]_vars

(***************************** claims ***********************************)
Started == pc \notin {"init", "rejected"}

\* how many rows of a frame carry tweet id t
Occurrences(rows, t) == Cardinality({i \in 1..Len(rows) : rows[i].tweet_id = t})

SameTweetIds(rows, raw) ==
    /\ Len(rows) = Len(raw)
    /\ \A i \in 1..Len(raw) :
          Occurrences(rows, raw[i].tweet_id) = Occurrences(raw, raw[i].tweet_id)

\* C1: the frame holds exactly one row per input row after every stage, and
\* so does the returned record set: same length, same multiset of tweet ids
\* (the author-aggregate join neither drops nor duplicates a post).
C1_RowsPreserved ==
    /\ Started => SameTweetIds(df, input)
    /\ pc = "done" => SameTweetIds(result, input)

\* C1 witness: a run returned two posts of one author, joined to that
\* author's aggregate of two tweets.
C1_Witness ==
    /\ pc = "done"
    /\ Len(result) = 2
    /\ result[1].author_id = result[2].author_id
    /\ result[1].tweet_count = Some(2)

RECURSIVE SumOver(_, _)
\* the sum of f over a finite set
SumOver(S, f) ==
    IF S = {} THEN 0
    ELSE LET x == CHOOSE y \in S : TRUE IN f[x] + SumOver(S \ {x}, f)

PostsBy(rows, a) == {i \in 1..Len(rows) : rows[i].author_id = a}
HostilePostsBy(rows, a) ==
    {i \in PostsBy(rows, a) : rows[i].sentiment_label = Some("Hostile")}

\* C2: once the author aggregation has run, every post carries its author's
\* number of posts, summed engagement, number of Hostile posts and
\* hostility score 100 * hostile / posts; two posts of one author carry the
\* same four values; one Hostile and one Neutral post of one author give 50
\* on both rows.
C2_AuthorAggregates ==
    "tweet_count" \in cols =>
        /\ \A i \in 1..Len(df) :
              LET p == df[i]
                  mine == PostsBy(df, p.author_id)
                  hostile == HostilePostsBy(df, p.author_id)
              IN  /\ p.tweet_count = Some(Cardinality(mine))
                  /\ p.total_engagement =
                        Some(SumOver(mine, [j \in mine |-> Val(df[j].engagement_score)]))
                  /\ p.hostile_tweet_count = Some(Cardinality(hostile))
                  /\ ~IsNull(p.author_hostility_score)
                  /\ Val(p.author_hostility_score).num * Cardinality(mine)
                        = 100 * Cardinality(hostile) * Val(p.author_hostility_score).den
                  /\ Val(p.author_hostility_score).den > 0
        /\ \A i, j \in 1..Len(df) :
              df[i].author_id = df[j].author_id =>
                  /\ df[i].tweet_count = df[j].tweet_count
                  /\ df[i].total_engagement = df[j].total_engagement
                  /\ df[i].hostile_tweet_count = df[j].hostile_tweet_count
                  /\ df[i].author_hostility_score = df[j].author_hostility_score
        /\ (/\ Len(df) = 2
            /\ df[1].author_id = df[2].author_id
            /\ {df[1].sentiment_label, df[2].sentiment_label}
                  = {Some("Hostile"), Some("Neutral")})
           => \A i \in 1..2 :
                 Val(df[i].author_hostility_score).num
                    = 50 * Val(df[i].author_hostility_score).den

\* C2 witness: the scenario, with a second author absent: two posts of one
\* author, one Hostile and one Neutral, both rows at 50.
C2_Witness ==
    /\ pc = "done"
    /\ Len(result) = 2
    /\ result[1].author_id = result[2].author_id
    /\ {result[1].sentiment_label, result[2].sentiment_label}
          = {Some("Hostile"), Some("Neutral")}
    /\ \A i \in 1..2 : result[i].author_hostility_score = Some([num |-> 100, den |-> 2])

\* the place a returned row had in the input
InputPos(row) == CHOOSE k \in 1..Len(input) : input[k].tweet_id = row.tweet_id

Score(row) == Val(row.engagement_score)

\* C3 as claimed: the returned record set is in descending engagement order
\* and posts of equal engagement keep their input order (a stable sort).
C3_DescendingStable ==
    pc = "done" =>
        \A i, j \in 1..Len(result) :
            i < j =>
                /\ Score(result[i]) >= Score(result[j])
                /\ Score(result[i]) = Score(result[j])
                      => InputPos(result[i]) < InputPos(result[j])

\* C3 amended: the returned record set is in descending order of each
\* post's own engagement score; nothing is said of the order of equal
\* scores.
C3_Descending ==
    pc = "done" =>
        /\ \A i, j \in 1..Len(result) :
              i < j => Score(result[i]) >= Score(result[j])
        /\ \A i \in 1..Len(result) :
              Score(result[i]) =
                  2 * result[i].like_count + 4 * result[i].retweet_count
                  + 3 * result[i].reply_count + 6 * result[i].quote_count

\* C3 witness: the sort moved the second input post, of strictly higher
\* engagement, in front of the first.
C3_Witness ==
    /\ pc = "done"
    /\ Len(result) = 2
    /\ InputPos(result[1]) = 2
    /\ Score(result[1]) > Score(result[2])

IsPrefix(s, t) == Len(s) <= Len(t) /\ \A k \in 1..Len(s) : s[k] = t[k]

AllRows(P(_)) == \A i \in 1..Len(df) : P(df[i])

\* C4: the stages start in the order engagement, sentiment, entities,
\* author aggregation, bot heuristic (only with both bot columns),
\* geocoding, sort, return; a stage that has started has filled its columns
\* on every post before the next starts; author aggregation starts only
\* when every post has an engagement score and a sentiment label; the frame
\* returned is the frame as the sort left it.
C4_StageOrder ==
    LET expected ==
            IF {"author_created_at", "author_followers_count"} \subseteq inputCols
            THEN <<"engagement", "sentiment", "entities", "author_metrics",
                   "bot_score", "geocode", "sort", "return">>
            ELSE <<"engagement", "sentiment", "entities", "author_metrics",
                   "geocode", "sort", "return">>
    IN  /\ IsPrefix(trace, expected)
        /\ pc = "done" => trace = expected /\ result = df
        /\ pc = "return" => trace[Len(trace)] = "sort"
        /\ "engagement" \in Range(trace)
              => AllRows(LAMBDA r : ~IsNull(r.engagement_score))
        /\ "sentiment" \in Range(trace)
              => AllRows(LAMBDA r : ~IsNull(r.sentiment_label)
                                    /\ ~IsNull(r.sentiment_polarity))
        /\ "entities" \in Range(trace)
              => AllRows(LAMBDA r : ~IsNull(r.mentions) /\ ~IsNull(r.hashtags)
                                    /\ ~IsNull(r.urls))
        /\ "author_metrics" \in Range(trace)
              => AllRows(LAMBDA r : ~IsNull(r.tweet_count))
        /\ pc = "author_metrics"
              => AllRows(LAMBDA r : ~IsNull(r.engagement_score)
                                    /\ ~IsNull(r.sentiment_label))
        /\ pc \in {"sort", "return", "done"}
              => {"latitude", "longitude"} \subseteq cols

\* C4 witness: a run went through every stage, the bot heuristic and a
\* geocoding lookup included, and returned.
C4_Witness ==
    /\ pc = "done"
    /\ "bot_score" \in Range(trace)
    /\ Len(lookups) > 0
    /\ Len(trace) = 8

Located(rows) == {i \in 1..Len(rows) : ~IsNull(rows[i].author_location)}
Unlocated(rows) == {i \in 1..Len(rows) : IsNull(rows[i].author_location)}
Resolved == pc \in {"sort", "return", "done"}

\* C5 as claimed: when the dataset has the location column, some post with
\* a location and some post without, the run does not abort; once the
\* resolver is through, the posts without a location have null coordinates
\* and the others the coordinates cached for their string.
C5_NullLocationTolerated ==
    (/\ "author_location" \in inputCols
     /\ Located(input) # {}
     /\ Unlocated(input) # {})
    => /\ pc # "aborted"
       /\ Resolved =>
             \A i \in 1..Len(df) :
                IF IsNull(df[i].author_location)
                THEN df[i].latitude = None /\ df[i].longitude = None
                ELSE <<df[i].latitude, df[i].longitude>>
                        = location_cache[Val(df[i].author_location)]

TimesLookedUp(s) == Cardinality({k \in 1..Len(lookups) : lookups[k] = s})

Unresolved == {s \in DOMAIN location_cache : location_cache[s] = <<None, None>>}

\* C7 as claimed: a lookup that fails or finds nothing leaves the
\* unresolved marker in the cache and the run goes on to its end; the posts
\* with that string then have null coordinates, and two posts with one
\* string have the same pair.
C7_FailedLookupAbsorbed ==
    Unresolved # {} =>
        /\ pc # "aborted"
        /\ Resolved =>
              /\ \A i \in Located(df) :
                    Val(df[i].author_location) \in Unresolved
                       => df[i].latitude = None /\ df[i].longitude = None
              /\ \A i, j \in Located(df) :
                    df[i].author_location = df[j].author_location
                       => /\ df[i].latitude = df[j].latitude
                          /\ df[i].longitude = df[j].longitude

\* C8 as claimed: a bot score that was computed lies in [0, 100] (kept in
\* 1/146ths: [0, 14600]).
C8_BotScoreInRange ==
    "bot_score" \in cols =>
        \A i \in 1..Len(df) :
            ~IsNull(df[i].bot_score)
               => Val(df[i].bot_score) >= 0 /\ Val(df[i].bot_score) <= 14600

PastBotStage == pc \in {"geocode", "geocode_loop", "sort", "return", "done", "aborted"}

C10_EmptyInputRejected ==
    /\ pc = "rejected" =>
          /\ input = <<>>
          /\ error = "ValueError"
          /\ trace = <<>>
          /\ df = NoFrame
          /\ result = NoFrame
    /\ pc # "init" /\ input = <<>> => pc = "rejected"
    /\ pc # "init" /\ input # <<>> => pc # "rejected"

\* C10 witness: the engine refused an empty record set.
C10_Witness ==
    /\ pc = "rejected"
    /\ input = <<>>
    /\ error = "ValueError"


(*********************** a second run of the engine **********************)
\* the runs of the program over one input file
MaxRuns == 2
\* the days that may pass between two runs
MaxDaysBetween == 1

\* __main__ once more: read the same file, build a new TweetAnalyzer and
\* run it; the wall clock (datetime.now in _calculate_bot_score) has moved on
Rerun ==
    /\ pc = "done"
    /\ runs < MaxRuns
    /\ previous' = result
    /\ runs' = runs + 1
    /\ \E elapsed \in 0..MaxDaysBetween : now' = now + elapsed
    /\ df' = NoFrame
    /\ cols' = {}
    /\ pc' = "init"
    /\ unique_locations' = <<>>
    /\ location_cache' = <<>>
    /\ lookups' = <<>>
    /\ trace' = <<>>
    /\ error' = ""
    /\ result' = NoFrame
    /\ UNCHANGED <<input, inputCols, graphVars, collectorVars>>

NextRerun ==
    \/ Next
    \/ Rerun

SpecRerun == Init /\ [][NextRerun]_vars

\* the fields of a row that neither the geocoder nor the sort's treatment
\* of ties can influence
Enrichment(r) ==
    [engagement_score |-> r.engagement_score,
     sentiment_polarity |-> r.sentiment_polarity,
     sentiment_label |-> r.sentiment_label,
     hashtags |-> r.hashtags, mentions |-> r.mentions, urls |-> r.urls,
     tweet_count |-> r.tweet_count,
     total_engagement |-> r.total_engagement,
     hostile_tweet_count |-> r.hostile_tweet_count,
     author_hostility_score |-> r.author_hostility_score,
     bot_score |-> r.bot_score]

\* C11: two runs over the same input give every post the same derived
\* fields, bot_score included. (Row order and coordinates are left out of
\* the comparison: the model draws them afresh in each run, the program
\* with stubs does not.)
C11_SameEnrichment ==
    (pc = "done" /\ previous # NoFrame) =>
        \A i \in 1..Len(result), j \in 1..Len(previous) :
            result[i].tweet_id = previous[j].tweet_id
                => Enrichment(result[i]) = Enrichment(previous[j])


(************************ generate_network_graph ************************)
\* str(row['author_id'])
AuthorStr == (1 :> "1") @@ (2 :> "2")
str(a) == AuthorStr[a]

\* the lists r"@(\w+)" finds in the texts of the posts below: a handle, the
\* same handle twice, a handle that reads like the author id 1
MentionLists == {<<>>, <<"bob">>, <<"bob", "bob">>, <<"1">>, <<"bob", "1">>}
GraphPosts ==
    {RawPost(a, Text(0, m), <<0, 0, 0, 0>>, None, None, None) :
        a \in AuthorIds, m \in MentionLists}

\* lambda x: isinstance(x, list) and len(x) > 0
\* faulty variant: a list of any length passes
IsList(x) == ~IsNull(x)
HasMentions(x) == ~IsNull(x) /\ Len(Val(x)) > 0

mention_df(rows) == SelectSeq(rows, LAMBDA r : HasMentions(r.mentions))

\* the (author, mentioned) pairs in the order the two loops visit them
RECURSIVE PairsOf(_, _)
PairsOf(author, mentions) ==
    IF mentions = <<>> THEN <<>>
    ELSE <<<<author, Head(mentions)>>>> \o PairsOf(author, Tail(mentions))

RECURSIVE MentionPairs(_)
MentionPairs(rows) ==
    IF rows = <<>> THEN <<>>
    ELSE PairsOf(str(Val(Head(rows).author_id)), Val(Head(rows).mentions))
            \o MentionPairs(Tail(rows))

\* DiGraph.add_edge: the end points become nodes; the edge set holds one
\* edge per ordered pair
\* faulty variant: a self-loop is not added
add_edge_no_loop(g, u, v) ==
    IF u = v THEN [g EXCEPT !.nodes = @ \cup {u}]
    ELSE [g EXCEPT !.nodes = @ \cup {u, v}, !.edges = @ \cup {<<u, v>>}]
add_edge(g, u, v) ==
    [g EXCEPT !.nodes = @ \cup {u, v}, !.edges = @ \cup {<<u, v>>}]

number_of_nodes(g) == Cardinality(g.nodes)
number_of_edges(g) == Cardinality(g.edges)

\* what community.louvain_communities may return for a node set: a list of
\* non-empty, pairwise disjoint sets that cover it
Communities(nodes) ==
    {c \in UNION {[1..k -> (SUBSET nodes) \ {{}}] : k \in 1..Cardinality(nodes)} :
        /\ UNION Range(c) = nodes
        /\ \A i, j \in DOMAIN c : i # j => c[i] \cap c[j] = {}}

\* {node: i for i, comm in enumerate(communities) for node in comm}
\* faulty variant: enumerate(communities, 1)
node_community_map_from_1(comms) ==
    [n \in UNION Range(comms) |->
        CHOOSE i \in DOMAIN comms :
            n \in comms[i] /\ \A j \in DOMAIN comms : n \in comms[j] => j <= i]
node_community_map(comms) ==
    [n \in UNION Range(comms) |->
        (CHOOSE i \in DOMAIN comms :
            n \in comms[i] /\ \A j \in DOMAIN comms : n \in comms[j] => j <= i) - 1]

\* nx.set_node_attributes(G, node_community_map, 'group')
set_node_attributes(g, values) == [g EXCEPT !.group = values]

\* the statements of generate_network_graph after the build loop, and where
\* control goes after each
GraphSteps == <<"graph_detect", "graph_gexf", "graph_html", "graph_end">>
GraphStepAfter(step) ==
    LET i == CHOOSE k \in DOMAIN GraphSteps : GraphSteps[k] = step
    IN  GraphSteps[i + 1]
\* each of the three try blocks has an except Exception that prints and
\* falls through to the next statement
\* faulty variant: the handler returns
OnExceptionReturn(step) == "graph_end"
OnException(step) == GraphStepAfter(step)

InitGraph ==
    /\ \E posts \in SeqsUpTo(GraphPosts, MaxPosts) :
          /\ input = Dataset(posts, {})
          /\ inputCols = RequiredCols
    /\ df = NoFrame
    /\ cols = {}
    /\ pc = "init"
    /\ now \in NowDays
    /\ unique_locations = <<>>
    /\ location_cache = <<>>
    /\ lookups = <<>>
    /\ trace = <<>>
    /\ error = ""
    /\ result = NoFrame
    /\ FirstRun
    /\ NoGraph
    /\ CollectorIdle

\* analyzer.generate_network_graph(...): the filter, the early return,
\* G = nx.DiGraph()
GraphStart ==
    /\ pc = "done"
    /\ IF mention_df(df) = <<>>
       THEN /\ pc' = "graph_end"
            /\ UNCHANGED <<G, pending>>
       ELSE /\ G' = EmptyGraph
            /\ pending' = MentionPairs(mention_df(df))
            /\ pc' = "graph_build"
    /\ UNCHANGED <<input, inputCols, df, cols, now, unique_locations,
                   location_cache, lookups, trace, error, result>>
    /\ UNCHANGED <<edge_calls, communities, detections, attempted, artifacts>>
    /\ UNCHANGED <<rerunVars, collectorVars>>

\* G.add_edge(author, mentioned)
AddEdge ==
    /\ pc = "graph_build"
    /\ pending # <<>>
    /\ G' = add_edge(G, Head(pending)[1], Head(pending)[2])
    /\ edge_calls' = edge_calls + 1
    /\ pending' = Tail(pending)
    /\ UNCHANGED <<input, inputCols, df, cols, pc, now, unique_locations,
                   location_cache, lookups, trace, error, result>>
    /\ UNCHANGED <<communities, detections, attempted, artifacts>>
    /\ UNCHANGED <<rerunVars, collectorVars>>

\* the loops are over
BuildDone ==
    /\ pc = "graph_build"
    /\ pending = <<>>
    /\ pc' = GraphSteps[1]
    /\ UNCHANGED <<input, inputCols, df, cols, now, unique_locations,
                   location_cache, lookups, trace, error, result>>
    /\ UNCHANGED <<graphVars, rerunVars, collectorVars>>

\* try: communities = list(louvain_communities(...)); set_node_attributes
\* except Exception: print
DetectCommunities ==
    /\ pc = "graph_detect"
    /\ detections' = detections + 1
    /\ \/ \E c \in Communities(G.nodes) :
             /\ communities' = c
             /\ G' = set_node_attributes(G, node_community_map(c))
             /\ pc' = GraphStepAfter("graph_detect")
       \/ /\ UNCHANGED <<communities, G>>
          /\ pc' = OnException("graph_detect")
    /\ UNCHANGED <<input, inputCols, df, cols, now, unique_locations,
                   location_cache, lookups, trace, error, result>>
    /\ UNCHANGED <<pending, edge_calls, attempted, artifacts>>
    /\ UNCHANGED <<rerunVars, collectorVars>>

\* try: nx.write_gexf(G, output_path_gexf) except Exception: print
WriteGexf ==
    /\ pc = "graph_gexf"
    /\ attempted' = attempted \cup {"gexf"}
    /\ \/ /\ artifacts' = artifacts \cup {"gexf"}
          /\ pc' = GraphStepAfter("graph_gexf")
       \/ /\ UNCHANGED artifacts
          /\ pc' = OnException("graph_gexf")
    /\ UNCHANGED <<input, inputCols, df, cols, now, unique_locations,
                   location_cache, lookups, trace, error, result>>
    /\ UNCHANGED <<G, pending, edge_calls, communities, detections>>
    /\ UNCHANGED <<rerunVars, collectorVars>>

\* try: net = Network(...); net.from_nx(G); net.save_graph(output_path_html)
\* except Exception: print
WriteHtml ==
    /\ pc = "graph_html"
    /\ attempted' = attempted \cup {"html"}
    /\ \/ /\ artifacts' = artifacts \cup {"html"}
          /\ pc' = GraphStepAfter("graph_html")
       \/ /\ UNCHANGED artifacts
          /\ pc' = OnException("graph_html")
    /\ UNCHANGED <<input, inputCols, df, cols, now, unique_locations,
                   location_cache, lookups, trace, error, result>>
    /\ UNCHANGED <<G, pending, edge_calls, communities, detections>>
    /\ UNCHANGED <<rerunVars, collectorVars>>

\* the engine on a file without author metadata, then the graph
NextGraph ==
    \/ Construct
    \/ EngagementStage
    \/ SentimentStage
    \/ EntityStage
    \/ AuthorMetricsStage
    \/ SkipBotScore
    \/ GeocodeNoColumn
    \/ SortStage
    \/ Return
    \/ GraphStart
    \/ AddEdge
    \/ BuildDone
    \/ DetectCommunities
    \/ WriteGexf
    \/ WriteHtml

SpecGraph == InitGraph /\ [][NextGraph]_vars


(*********************** claims on the mention graph *********************)
\* the build loop has run to its end
GraphBuilt ==
    \/ pc \in {"graph_detect", "graph_gexf", "graph_html"}
    \/ pc = "graph_end" /\ detections > 0

\* the mentions in the input texts, counted with repetition
MentionOccurrences == SeqSum([i \in 1..Len(input) |-> Len(input[i].text.mentions)])

\* the distinct (author, mentioned) pairs in the input texts
DistinctMentionPairs ==
    UNION {{<<str(Val(input[i].author_id)), m>> :
               m \in Range(input[i].text.mentions)} : i \in 1..Len(input)}

\* C12 as stated: the number of edges equals the number of mention
\* occurrences, repeated (author, mentioned) pairs included.
C12_EdgePerOccurrence ==
    GraphBuilt => number_of_edges(G) = MentionOccurrences

\* C12: add_edge is called once per mention occurrence, and the edges are
\* the distinct (author, mentioned) pairs: a repeated pair is one edge.
C12_EdgePerDistinctPair ==
    GraphBuilt =>
        /\ edge_calls = MentionOccurrences
        /\ G.edges = DistinctMentionPairs
        /\ number_of_edges(G) <= MentionOccurrences

\* a built graph where a pair occurred twice, and one with a self-loop
C12_Witness ==
    /\ GraphBuilt
    /\ edge_calls > number_of_edges(G)
    /\ <<"1", "1">> \in G.edges


\* louvain_communities has returned a list
Detected == communities # <<>>

\* the authors that mention someone and the handles they mention
MentionNodes ==
    {str(Val(input[i].author_id)) :
        i \in {k \in 1..Len(input) : input[k].text.mentions # <<>>}}
    \cup UNION {Range(input[i].text.mentions) : i \in 1..Len(input)}

\* C13: once detection has succeeded every node of the graph carries one
\* community index, a number from 0 up to the number of communities less
\* one; two nodes carry the same index exactly when they are in the same
\* community; detection is called once, after the last edge was added.
C13_CommunityIndex ==
    /\ detections <= 1
    /\ detections > 0 => pending = <<>> /\ edge_calls = MentionOccurrences
    /\ Detected =>
        /\ G.nodes = MentionNodes
        /\ DOMAIN G.group = G.nodes
        /\ \A n \in G.nodes : G.group[n] \in 0..(Len(communities) - 1)
        /\ \A n, m \in G.nodes :
              G.group[n] = G.group[m]
                  <=> \E i \in DOMAIN communities :
                          n \in communities[i] /\ m \in communities[i]

\* three nodes in two communities
C13_Witness ==
    /\ Detected
    /\ number_of_nodes(G) = 3
    /\ Len(communities) = 2
    /\ \E n, m \in G.nodes : n # m /\ G.group[n] = G.group[m]


\* generate_network_graph is running past its early return
InGraph == pc \in {"graph_build", "graph_detect", "graph_gexf", "graph_html"}
\* generate_network_graph has returned
GraphReturned == pc = "graph_end"

\* C14: a failure of community detection or of one write is caught where it
\* happens: after a failed detection no node has the attribute and both
\* writes are attempted; whether or not the GEXF write fails the HTML write
\* is attempted, and a failed HTML write leaves the GEXF file in place; every
\* step has a next one until the function returns, with no error set.
C14_FailuresIsolated ==
    /\ (InGraph \/ GraphReturned) => error = ""
    /\ InGraph => ENABLED (AddEdge \/ BuildDone \/ DetectCommunities
                              \/ WriteGexf \/ WriteHtml)
    /\ (detections > 0 /\ ~Detected) => G.group = <<>>
    /\ (GraphReturned /\ detections > 0) => attempted = {"gexf", "html"}
    /\ ("html" \in attempted /\ "gexf" \notin artifacts) => "gexf" \in attempted

\* detection and the GEXF write failed, the HTML file was written
C14_Witness ==
    /\ GraphReturned
    /\ detections = 1
    /\ ~Detected
    /\ artifacts = {"html"}

\* C15: when no post mentions anyone generate_network_graph returns at once:
\* no graph, no detection, no write, no error; and in every case the
\* analyzer's record set stays the one run_full_analysis returned.
C15_EmptyGraphShortCircuit ==
    /\ (InGraph \/ GraphReturned) => df = result /\ Len(df) = Len(input)
    /\ MentionOccurrences = 0 =>
          /\ ~InGraph
          /\ GraphReturned =>
                /\ G = EmptyGraph
                /\ edge_calls = 0
                /\ detections = 0
                /\ attempted = {}
                /\ artifacts = {}
                /\ error = ""

\* two posts without a mention: the function has returned
C15_Witness ==
    /\ GraphReturned
    /\ MentionOccurrences = 0
    /\ Len(df) = 2


(******************** posts without an author id ************************)
\* a post whose author_id cell is empty
NullAuthorPosts ==
    {[RawPost(1, Text(p, <<>>), <<10, 2, 1, 0>>, None, None, None)
        EXCEPT !.author_id = None] : p \in Polarities}

\* the file may also lack the author_id column altogether
AuthorCols == {{"author_id"}, {}}
WithoutColumn(rows, c) ==
    IF c = "author_id" THEN [i \in 1..Len(rows) |-> [rows[i] EXCEPT !.author_id = None]]
    ELSE rows

InitAuthors ==
    /\ \E cs \in SUBSET OptionalCols, ac \in AuthorCols,
          posts \in SeqsUpTo(PostSet \cup NullAuthorPosts, MaxPosts) :
          /\ input = IF "author_id" \in ac THEN Dataset(posts, cs)
                     ELSE WithoutColumn(Dataset(posts, cs), "author_id")
          /\ inputCols = (RequiredCols \ {"author_id"}) \cup ac \cup cs
    /\ df = NoFrame
    /\ cols = {}
    /\ pc = "init"
    /\ now \in NowDays
    /\ unique_locations = <<>>
    /\ location_cache = <<>>
    /\ lookups = <<>>
    /\ trace = <<>>
    /\ error = ""
    /\ result = NoFrame
    /\ FirstRun
    /\ NoGraph
    /\ CollectorIdle

SpecAuthors == InitAuthors /\ [][Next]_vars

\* a post of the input has no author id
AuthorMissing == \E i \in 1..Len(input) : IsNull(input[i].author_id)

\* C16: the Author Aggregator does not complete on an input where some
\* post has no author id, be it that the column is absent or that one cell
\* is empty: no run gets past it with such a post.
C16_MissingAuthorRejected ==
    AuthorMissing => "author_metrics" \notin Range(trace)

\* C16, the part that holds: without the author_id column the aggregator
\* raises KeyError.
C16_AbsentColumnRejected ==
    "author_id" \notin inputCols => "author_metrics" \notin Range(trace)


(************* the two per-post scores over a range of inputs ************)
\* the largest interaction count drawn, beside the counts 10, 2, 1, 0
MaxCount == 2
\* the largest polarity drawn, in hundredths, either side of zero
MaxPolarity == 7

CountTuples ==
    {<<l, r, p, q>> : l \in 0..MaxCount, r \in 0..MaxCount,
                      p \in 0..MaxCount, q \in 0..MaxCount}
    \cup {<<10, 2, 1, 0>>}
PolarityRange == (0 - MaxPolarity)..MaxPolarity

ScoredPosts ==
    {RawPost(1, Text(p, <<>>), c, None, None, None) :
        p \in PolarityRange, c \in CountTuples}

InitEnrich ==
    /\ \E post \in ScoredPosts :
          /\ input = Dataset(<<post>>, {})
          /\ inputCols = RequiredCols
    /\ df = NoFrame
    /\ cols = {}
    /\ pc = "init"
    /\ now \in NowDays
    /\ unique_locations = <<>>
    /\ location_cache = <<>>
    /\ lookups = <<>>
    /\ trace = <<>>
    /\ error = ""
    /\ result = NoFrame
    /\ FirstRun
    /\ NoGraph
    /\ CollectorIdle

\* the first two stages of run_full_analysis
NextEnrich ==
    \/ Construct
    \/ EngagementStage
    \/ SentimentStage

SpecEnrich == InitEnrich /\ [][NextEnrich]_vars

\* C17: twice the engagement score of a post is 2 likes + 4 reposts +
\* 3 replies + 6 quotes, that is the score is 1, 2, 1.5 and 3 times the four
\* counts; the counts 10, 2, 1, 0 score 15.5.
C17_EngagementWeights ==
    \A i \in 1..Len(df) :
        ~IsNull(df[i].engagement_score) =>
            /\ Val(df[i].engagement_score) =
                  2 * input[i].like_count + 4 * input[i].retweet_count
                  + 3 * input[i].reply_count + 6 * input[i].quote_count
            /\ <<input[i].like_count, input[i].retweet_count,
                 input[i].reply_count, input[i].quote_count>> = <<10, 2, 1, 0>>
                  => Val(df[i].engagement_score) = 31

\* the post with counts 10, 2, 1, 0 has been scored 15.5
C17_Witness ==
    /\ Len(df) = 1
    /\ <<df[1].like_count, df[1].retweet_count,
         df[1].reply_count, df[1].quote_count>> = <<10, 2, 1, 0>>
    /\ df[1].engagement_score = Some(31)

\* C18: a labelled post is Hostile exactly when its polarity is below -0.05,
\* Positive exactly when it is above 0.05, Neutral otherwise, the two
\* thresholds themselves included; it has one of the three labels.
C18_SentimentLabel ==
    \A i \in 1..Len(df) :
        ~IsNull(df[i].sentiment_label) =>
            LET label == Val(df[i].sentiment_label)
                polarity == input[i].text.polarity
            IN  /\ label \in {"Hostile", "Positive", "Neutral"}
                /\ label = "Hostile" <=> polarity < -5
                /\ label = "Positive" <=> polarity > 5
                /\ label = "Neutral" <=> (polarity >= -5 /\ polarity <= 5)
                /\ Val(df[i].sentiment_polarity) = polarity

\* a post of polarity exactly -0.05 has been labelled
C18_Witness ==
    /\ Len(df) = 1
    /\ df[1].text.polarity = -5
    /\ df[1].sentiment_label = Some("Neutral")


(***************************** collect_tweets ***************************)
\* the longest keyword list drawn
MaxKeywords == 3

MAX_QUERY_LENGTH == 480
max_retries == 5
base_wait_time == 1
\* time.sleep(905) once the short waits are used up
long_wait == 905

\* a keyword, reduced to its spelling and len(keyword)
Keyword(w, n) == [word |-> w, len |-> n]
KeywordSet == {Keyword("riot", 4), Keyword("long", 238), Keyword("huge", 480)}

\* the for loop over keywords: the chunks closed so far, the open chunk and
\* its running length
RECURSIVE ChunkLoop(_, _, _, _)
ChunkLoop(ks, chunks, current_chunk, current_length) ==
    IF ks = <<>> THEN <<chunks, current_chunk>>
    ELSE LET keyword == Head(ks) IN
         IF current_length + keyword.len + 4 > MAX_QUERY_LENGTH
         THEN ChunkLoop(Tail(ks), Append(chunks, current_chunk),
                        <<keyword>>, keyword.len)
         ELSE ChunkLoop(Tail(ks), chunks, Append(current_chunk, keyword),
                        current_length + keyword.len + 4)

\* keyword_chunks after "if current_chunk: keyword_chunks.append(current_chunk)"
KeywordChunks(ks) ==
    LET end == ChunkLoop(ks, <<>>, <<>>, 0) IN
    IF end[2] # <<>> THEN Append(end[1], end[2]) ELSE end[1]

\* the tweet ids a successful search may return; a tweet can match the
\* queries of several chunks
TweetBatches == {<<1>>, <<1, 2>>}
\* chunk_df: one record per tweet of the response, as fetched for chunk i
ChunkFrame(batch, i) == [k \in 1..Len(batch) |-> [tweet_id |-> batch[k], chunk |-> i]]

\* DataFrame.drop_duplicates(subset=['tweet_id']): an empty frame is returned
\* as it is, otherwise the first record of each tweet_id is kept
\* faulty variant: whole records are compared (no subset)
drop_duplicates_rows(frame) ==
    IF frame = <<>> THEN frame
    ELSE LET kept == {i \in 1..Len(frame) :
                         \A j \in 1..(i - 1) : frame[j] # frame[i]}
             RECURSIVE Keep(_)
             Keep(i) == IF i > Len(frame) THEN <<>>
                        ELSE (IF i \in kept THEN <<frame[i]>> ELSE <<>>) \o Keep(i + 1)
         IN  Keep(1)
drop_duplicates(frame) ==
    IF frame = <<>> THEN frame
    ELSE LET kept == {i \in 1..Len(frame) :
                         \A j \in 1..(i - 1) : frame[j].tweet_id # frame[i].tweet_id}
             RECURSIVE Keep(_)
             Keep(i) == IF i > Len(frame) THEN <<>>
                        ELSE (IF i \in kept THEN <<frame[i]>> ELSE <<>>) \o Keep(i + 1)
         IN  Keep(1)

RECURSIVE Pow2(_)
Pow2(n) == IF n = 0 THEN 1 ELSE 2 * Pow2(n - 1)

\* one entry of the history of a chunk
Requested(outcome) == [op |-> "request", secs |-> 0, outcome |-> outcome]
Slept(secs) == [op |-> "sleep", secs |-> secs, outcome |-> ""]

\* no TweetAnalyzer exists while the collector runs
EngineIdle ==
    /\ input = <<>>
    /\ inputCols = {}
    /\ df = NoFrame
    /\ cols = {}
    /\ pc = "idle"
    /\ now \in NowDays
    /\ unique_locations = <<>>
    /\ location_cache = <<>>
    /\ lookups = <<>>
    /\ trace = <<>>
    /\ error = ""
    /\ result = NoFrame

\* collect_tweets(keywords) is called with BEARER_TOKEN set
InitCollector ==
    /\ EngineIdle
    /\ FirstRun
    /\ NoGraph
    /\ keywords \in SeqsUpTo(KeywordSet, MaxKeywords)
    /\ keyword_chunks = <<>>
    /\ chunk_i = 0
    /\ attempt = 0
    /\ all_tweets_df = <<>>
    /\ chunk_log = <<>>
    /\ cpc = "start"
    /\ returned = <<>>

\* tweepy.Client(...), all_tweets_df = pd.DataFrame(), the chunking
CollectStart ==
    /\ cpc = "start"
    /\ \/ \* except Exception: return pd.DataFrame()
          /\ cpc' = "returned"
          /\ returned' = <<>>
          /\ UNCHANGED <<keyword_chunks, chunk_i>>
       \/ /\ keyword_chunks' = KeywordChunks(keywords)
          /\ chunk_i' = 1
          /\ cpc' = IF KeywordChunks(keywords) = <<>> THEN "final" ELSE "request"
          /\ UNCHANGED returned
    /\ UNCHANGED <<keywords, attempt, all_tweets_df, chunk_log>>
    /\ UNCHANGED <<engineVars, rerunVars, graphVars>>

\* client.search_recent_tweets(...) and what follows it in the try block
Request ==
    /\ cpc = "request"
    /\ \/ \E batch \in TweetBatches :
             /\ chunk_log' = Append(chunk_log, Requested("tweets"))
             /\ all_tweets_df' = all_tweets_df \o ChunkFrame(batch, chunk_i)
             /\ cpc' = "chunk_end"
       \/ \* not response or not response.data
          /\ chunk_log' = Append(chunk_log, Requested("none"))
          /\ cpc' = "chunk_end"
          /\ UNCHANGED all_tweets_df
       \/ \* except tweepy.errors.TooManyRequests
          /\ chunk_log' = Append(chunk_log, Requested("rate_limited"))
          /\ cpc' = "rate_limited"
          /\ UNCHANGED all_tweets_df
       \/ \* except tweepy.errors.TweepyException: break
          /\ chunk_log' = Append(chunk_log, Requested("error"))
          /\ cpc' = "chunk_end"
          /\ UNCHANGED all_tweets_df
    /\ UNCHANGED <<keywords, keyword_chunks, chunk_i, attempt, returned>>
    /\ UNCHANGED <<engineVars, rerunVars, graphVars>>

\* the TooManyRequests handler, then the for statement's next attempt
RateLimited ==
    /\ cpc = "rate_limited"
    /\ chunk_log' = Append(chunk_log,
                           Slept(IF attempt < max_retries - 1
                                 THEN base_wait_time * Pow2(attempt)
                                 ELSE long_wait))
    /\ attempt' = attempt + 1
    /\ cpc' = IF attempt + 1 < max_retries THEN "request" ELSE "chunk_end"
    /\ UNCHANGED <<keywords, keyword_chunks, chunk_i, all_tweets_df, returned>>
    /\ UNCHANGED <<engineVars, rerunVars, graphVars>>

\* for i, chunk in enumerate(keyword_chunks): the next chunk, or the end
NextChunk ==
    /\ cpc = "chunk_end"
    /\ IF chunk_i < Len(keyword_chunks)
       THEN /\ chunk_i' = chunk_i + 1
            /\ attempt' = 0
            /\ chunk_log' = <<>>
            /\ cpc' = "request"
       ELSE /\ cpc' = "final"
            /\ UNCHANGED <<chunk_i, attempt, chunk_log>>
    /\ UNCHANGED <<keywords, keyword_chunks, all_tweets_df, returned>>
    /\ UNCHANGED <<engineVars, rerunVars, graphVars>>

\* all_tweets_df.drop_duplicates(subset=['tweet_id']); return. all_tweets_df
\* keeps the concatenation, returned is what the caller gets.
Finalize ==
    /\ cpc = "final"
    /\ returned' = drop_duplicates(all_tweets_df)
    /\ cpc' = "returned"
    /\ UNCHANGED <<keywords, keyword_chunks, chunk_i, attempt, all_tweets_df,
                   chunk_log>>
    /\ UNCHANGED <<engineVars, rerunVars, graphVars>>

NextCollector ==
    \/ CollectStart
    \/ Request
    \/ RateLimited
    \/ NextChunk
    \/ Finalize

SpecCollector == InitCollector /\ [][NextCollector]_vars


(************************ claims on the collector ************************)
TweetIds(frame) == {frame[i].tweet_id : i \in 1..Len(frame)}
CollectorRunning == cpc \in {"start", "request", "rate_limited", "chunk_end", "final"}

\* C19: whatever the API answers for each chunk, collect_tweets comes to
\* its return (every step before it has a next step), and the records it
\* returns have pairwise different tweet ids and are the tweets collected.
C19_Deduplicated ==
    /\ CollectorRunning => ENABLED NextCollector
    /\ cpc = "returned" =>
          /\ \A i, j \in 1..Len(returned) :
                returned[i].tweet_id = returned[j].tweet_id => i = j
          /\ TweetIds(returned) = TweetIds(all_tweets_df)

\* two chunks returned the same tweet; it is returned once
C19_Witness ==
    /\ cpc = "returned"
    /\ Len(all_tweets_df) = 3
    /\ Len(returned) = 2
    /\ \E i \in 1..Len(all_tweets_df) : all_tweets_df[i].chunk = 2

\* no chunk gave a tweet: the empty frame is returned
C19_EmptyReturned ==
    /\ cpc = "returned"
    /\ keyword_chunks # <<>>
    /\ all_tweets_df = <<>>
    /\ returned = <<>>

\* the waits of the current chunk, in order
Sleeps == LET s == SelectSeq(chunk_log, LAMBDA e : e.op = "sleep")
          IN  [k \in 1..Len(s) |-> s[k].secs]

\* C20: for one chunk the waits are 1, 2, 4, 8 and then 905 seconds; when
\* the collector moves on, every wait, the 905 second one included, was
\* followed by another request for the chunk; a request that succeeded is
\* the last one.
C20_RetryProtocol ==
    /\ IsPrefix(Sleeps, <<1, 2, 4, 8, 905>>)
    /\ \A k \in 1..Len(chunk_log) :
          /\ (chunk_log[k].op = "sleep" /\ cpc = "chunk_end") =>
                (k < Len(chunk_log) /\ chunk_log[k + 1].op = "request")
          /\ chunk_log[k].outcome \in {"tweets", "none"} => k = Len(chunk_log)

\* C20 without the last retry: the waits are 1, 2, 4, 8, 905, each short
\* wait is followed by a request, and a success ends the retries.
C20_ShortRetries ==
    /\ IsPrefix(Sleeps, <<1, 2, 4, 8, 905>>)
    /\ \A k \in 1..Len(chunk_log) :
          /\ (chunk_log[k].op = "sleep" /\ chunk_log[k].secs # 905
                /\ cpc = "chunk_end") =>
                (k < Len(chunk_log) /\ chunk_log[k + 1].op = "request")
          /\ chunk_log[k].outcome \in {"tweets", "none"} => k = Len(chunk_log)


(********************* claims on the keyword chunking ********************)
\* the chunks have been built
Chunked == cpc \in {"request", "rate_limited", "chunk_end", "final"}
           \/ (cpc = "returned" /\ chunk_i > 0)

RECURSIVE Flatten(_)
Flatten(chunks) ==
    IF chunks = <<>> THEN <<>> ELSE Head(chunks) \o Flatten(Tail(chunks))

\* sum(len(keyword) + 4) over a chunk
ChunkLength(chunk) == SeqSum([k \in 1..Len(chunk) |-> chunk[k].len + 4])

\* C21: the chunks, put end to end, are the keyword list; no chunk is
\* empty; a chunk of more than one keyword has sum(len(keyword) + 4) of at
\* most MAX_QUERY_LENGTH.
C21_ChunksPartition ==
    Chunked =>
        /\ Flatten(keyword_chunks) = keywords
        /\ \A c \in 1..Len(keyword_chunks) :
              /\ keyword_chunks[c] # <<>>
              /\ Len(keyword_chunks[c]) > 1
                    => ChunkLength(keyword_chunks[c]) <= MAX_QUERY_LENGTH

\* C21, the part that holds: the chunks, put end to end, are the keyword
\* list.
C21_Concatenation ==
    Chunked => Flatten(keyword_chunks) = keywords

\* C21, the second part alone: no chunk is empty.
C21_NoEmptyChunk ==
    Chunked => \A c \in 1..Len(keyword_chunks) : keyword_chunks[c] # <<>>

\* C21, the third part alone: the length bound of chunks of several
\* keywords.
C21_LengthBound ==
    Chunked => \A c \in 1..Len(keyword_chunks) :
                  Len(keyword_chunks[c]) > 1
                      => ChunkLength(keyword_chunks[c]) <= MAX_QUERY_LENGTH

====
